---- MODULE Spec2Model ----
(***************************************************************************)
(* Model of gdnative-derive/src/methods.rs: the #[methods] pass.           *)
(*   impl_gdnative_expose : walks the items of an impl block, strips the   *)
(*       #[export] attributes and the #[opt] parameter attributes of the   *)
(*       exported methods, collects one ExportMethod per exported method,  *)
(*       then filters the generic ones out and normalises the rest;        *)
(*   derive_methods       : maps every remaining ExportMethod to one       *)
(*       registration statement or to one compile error.                   *)
(* The input impl block is drawn by Init; one action models one iteration  *)
(* of each of the three loops, and Finish assembles the output.            *)
(***************************************************************************)
EXTENDS Integers, Sequences, FiniteSets, TLC

VARIABLES
    items,              \* ast.items: the members of the impl block (input)
    i,                  \* position of `for func in ast.items` (1-based)
    result_items,       \* result.items
    methods_to_export,  \* Vec<ExportMethod> filled by the first loop
    v,                  \* position of `for mut method in methods_to_export`
    export_methods,     \* export.methods
    e,                  \* position of export.methods.into_iter().map(..)
    registered,         \* `methods`: the statements of fn register
    pc                  \* "run" until the output is assembled, then "done"

vars == <<items, i, result_items, methods_to_export, v, export_methods, e,
          registered, pc>>

\* Option<T>: None is the empty sequence, Some(x) the sequence of x alone.
None == <<>>
Some(x) == <<x>>
Unwrap(o) == o[1]

----------------------------------------------------------------------------
(* RpcMode::parse and the directive parser (the attrs.retain closure)      *)

RpcModeParse(s) ==
    CASE s = "remote"      -> Some("Remote")
      [] s = "remote_sync" -> Some("RemoteSync")
      [] s = "master"      -> Some("Master")
      [] s = "puppet"      -> Some("Puppet")
      [] s = "disabled"    -> Some("Disabled")
      [] s = "master_sync" -> Some("MasterSync")
      [] s = "puppet_sync" -> Some("PuppetSync")
      [] OTHER             -> None

RpcModeDefault == "Disabled"

ExportArgsDefault == [optional_args |-> None, rpc_mode |-> RpcModeDefault]

\* syn::Error::new(span, msg): the message with the values formatted into it (a
\* tuple, empty when the message takes none).  The span is added when the
\* error is placed.
Error(msg, arg) == [msg |-> msg, arg |-> arg]

\* The locals of one method's iteration: export_args, rpc, errors.
MethodLocals == [export_args |-> None, rpc |-> None, errors |-> <<>>]

PushError(st, msg, arg) == [st EXCEPT !.errors = Append(@, Error(msg, arg))]

\* The "rpc" arm of the match on the key.  Every path of the arm ends in
\* `return false`: it leaves the retain closure, and with it the loop over the
\* pairs of this attribute.
RpcArm(lit, st) ==
    IF lit.kind # "Str"
    THEN PushError(st, "unexpected type for rpc value, expected Str", <<>>)
    ELSE LET mode == RpcModeParse(lit.value) IN
         IF mode # None
         THEN IF st.rpc # None      \* rpc.replace(mode).is_some()
              THEN PushError([st EXCEPT !.rpc = mode],
                             "rpc mode was set more than once", <<>>)
              ELSE [st EXCEPT !.rpc = mode]
         ELSE PushError(st, "unexpected value for rpc", <<lit.value>>)

\* path.segments.last(): a path is the sequence of the names of its segments
LastSegment(path) == IF path = <<>> THEN None ELSE Some(path[Len(path)])

\* for MetaNameValue { path, lit, .. } in pairs
RECURSIVE PairLoop(_, _)
PairLoop(pairs, st) ==
    IF pairs = <<>> THEN st
    ELSE LET p == Head(pairs) IN
         IF LastSegment(p.path) = None
         THEN PushError(st, "the path should not be empty", <<>>)
         ELSE IF LastSegment(p.path) = Some("rpc")
         THEN RpcArm(p.lit, st)
         ELSE PairLoop(Tail(pairs),
                       PushError(st, "unknown option for export", LastSegment(p.path)))

\* list.nested.into_pairs().filter_map(..).collect(): the name/value pairs are
\* kept, every other nested argument is reported; collect() runs the whole
\* filter before the loop over the pairs starts.
RECURSIVE FilterPairs(_, _)
FilterPairs(nested, acc) ==
    IF nested = <<>> THEN acc
    ELSE LET x == Head(nested) IN
         FilterPairs(Tail(nested),
            IF x.nv
            THEN [acc EXCEPT !.pairs = Append(@, [path |-> x.path, lit |-> x.lit])]
            ELSE [acc EXCEPT !.st = PushError(@, "unexpected argument in list", <<>>)])

\* The payload of one #[export ...] attribute whose tokens are not empty.
ParsePayload(meta, st) ==
    CASE meta.kind = "Err"  -> PushError(st, "parse_meta", <<>>)
      [] meta.kind = "List" ->
            LET f == FilterPairs(meta.nested, [pairs |-> <<>>, st |-> st])
            IN  PairLoop(f.pairs, f.st)
      [] meta.kind = "NameValue" -> PairLoop(<<meta.pair>>, st)
      [] OTHER -> PushError(st, "unexpected attribute argument", <<>>)

\* attr.tokens.is_empty(): a bare #[export]
TokensEmpty(attr) == attr.meta.kind = "Empty"

\* matches!(attr.style, Outer) and the last path segment is "export"
IsExportMarker(attr) ==
    attr.style = "Outer" /\ LastSegment(attr.path) = Some("export")

\* RetainAttr with the first marker winning: a later marker is dropped unread.
RetainAttrFirstOnly(attr, st) ==
    IF IsExportMarker(attr)
    THEN [keep |-> FALSE,
          st   |-> IF st.export_args # None THEN st
                   ELSE LET st1 == [st EXCEPT !.export_args = Some(ExportArgsDefault)]
                        IN  IF ~TokensEmpty(attr) THEN ParsePayload(attr.meta, st1)
                            ELSE st1]
    ELSE [keep |-> TRUE, st |-> st]

\* One call of the closure of method.attrs.retain: the attribute is kept iff it
\* is no export marker.
RetainAttr(attr, st) ==
    IF IsExportMarker(attr)
    THEN LET st1 == IF st.export_args = None     \* get_or_insert_with(default)
                    THEN [st EXCEPT !.export_args = Some(ExportArgsDefault)]
                    ELSE st
         IN  [keep |-> FALSE,
              st   |-> IF ~TokensEmpty(attr) THEN ParsePayload(attr.meta, st1)
                       ELSE st1]
    ELSE [keep |-> TRUE, st |-> st]

\* method.attrs.retain(..): the closure runs on every attribute in order and
\* shares export_args, rpc and errors between the calls.
RECURSIVE RetainAttrs(_, _)
RetainAttrs(attrs, acc) ==
    IF attrs = <<>> THEN acc
    ELSE LET r == RetainAttr(Head(attrs), acc.st) IN
         RetainAttrs(Tail(attrs),
            [attrs |-> IF r.keep THEN Append(acc.attrs, Head(attrs)) ELSE acc.attrs,
             st    |-> r.st])

----------------------------------------------------------------------------
(* The scan of the parameters of an exported method                        *)

\* attrs.retain(|attr| ..) on one parameter: is_optional, and the attributes left
IsOptional(arg) == \E k \in 1..Len(arg.attrs) : arg.attrs[k] = "opt"

\* StripOpt leaving the attributes as they are.
StripOptKeep(arg) == arg

StripOpt(arg) == [arg EXCEPT !.attrs = SelectSeq(@, LAMBDA a : a # "opt")]

\* ParamStep without the check of a required parameter after an optional one.
ParamStepNoOrderCheck(n, arg, acc) ==
    LET acc1 == [acc EXCEPT !.inputs = Append(@, StripOpt(arg))] IN
    IF IsOptional(arg)
    THEN IF n < 2
         THEN [acc1 EXCEPT !.errors =
                   Append(@, Error("self or owner cannot be optional", <<>>))]
         ELSE [acc1 EXCEPT !.optional_args =
                   IF @ = None THEN Some(1) ELSE Some(Unwrap(@) + 1)]
    ELSE acc1

\* ParamStep counting an optional self or owner after reporting it.
ParamStepCountAll(n, arg, acc) ==
    LET acc1 == [acc EXCEPT !.inputs = Append(@, StripOpt(arg)),
                            !.errors = IF IsOptional(arg) /\ n < 2
                                       THEN Append(@, Error("self or owner cannot be optional", <<>>))
                                       ELSE @] IN
    IF IsOptional(arg)
    THEN [acc1 EXCEPT !.optional_args =
              IF @ = None THEN Some(1) ELSE Some(Unwrap(@) + 1)]
    ELSE IF acc.optional_args # None
         THEN [acc1 EXCEPT !.errors =
                   Append(@, Error("cannot add required parameters after optional ones", <<>>))]
         ELSE acc1

\* One iteration of `for (n, arg) in method.sig.inputs.iter_mut().enumerate()`;
\* n is the 0-based index of arg.
ParamStep(n, arg, acc) ==
    LET acc1 == [acc EXCEPT !.inputs = Append(@, StripOpt(arg))] IN
    IF IsOptional(arg)
    THEN IF n < 2
         THEN [acc1 EXCEPT !.errors =
                   Append(@, Error("self or owner cannot be optional", <<>>))]
         ELSE [acc1 EXCEPT !.optional_args =        \* *get_or_insert(0) += 1
                   IF @ = None THEN Some(1) ELSE Some(Unwrap(@) + 1)]
    ELSE IF acc.optional_args # None
         THEN [acc1 EXCEPT !.errors =
                   Append(@, Error("cannot add required parameters after optional ones", <<>>))]
         ELSE acc1

RECURSIVE ParamLoop(_, _, _)
ParamLoop(inputs, n, acc) ==
    IF n >= Len(inputs) THEN acc
    ELSE ParamLoop(inputs, n + 1, ParamStep(n, inputs[n + 1], acc))

----------------------------------------------------------------------------
(* impl_gdnative_expose, first loop: one item of the impl block            *)

\* ImplItem::Verbatim(err.to_compile_error()); every span used by the pass lies
\* in the method the error is about, which the span names here.
Verbatim(err, span) == [kind |-> "Verbatim", err |-> err, span |-> span]

RECURSIVE ErrorItems(_, _)
ErrorItems(errors, span) ==
    IF errors = <<>> THEN <<>>
    ELSE <<Verbatim(Head(errors), span)>> \o ErrorItems(Tail(errors), span)

\* The ImplItem::Method arm: the items to add to result.items and the
\* ExportMethod (none or one) to add to methods_to_export.
ExposeMethod(method) ==
    LET a == RetainAttrs(method.attrs, [attrs |-> <<>>, st |-> MethodLocals]) IN
    IF a.st.export_args # None
    THEN LET p == ParamLoop(method.sig.inputs, 0,
                     [inputs |-> <<>>, optional_args |-> None, errors |-> a.st.errors])
             sig == [method.sig EXCEPT !.inputs = p.inputs]
             args == [optional_args |-> p.optional_args,
                      rpc_mode |-> IF a.st.rpc = None THEN RpcModeDefault
                                   ELSE Unwrap(a.st.rpc)]
         IN  [items   |-> ErrorItems(p.errors, method.sig.ident)
                          \o <<[method EXCEPT !.attrs = a.attrs, !.sig = sig]>>,
              exports |-> <<[sig |-> sig, args |-> args]>>]
    ELSE [items   |-> ErrorItems(a.st.errors, method.sig.ident)
                      \o <<[method EXCEPT !.attrs = a.attrs]>>,
          exports |-> <<>>]

\* One iteration of `for func in ast.items`.
ExposeItem(func) ==
    IF func.kind = "Method" THEN ExposeMethod(func)
    ELSE [items |-> <<func>>, exports |-> <<>>]

----------------------------------------------------------------------------
(* impl_gdnative_expose, second loop: the shape of one exported method     *)

\* The three generics checks, in the order of the code; None when all pass.
GenericsError(generics) ==
    IF generics.type_params > 0
    THEN Some(Error("Type parameters not allowed in exported functions", <<>>))
    ELSE IF generics.lifetimes > 0
    THEN Some(Error("Lifetime parameters not allowed in exported functions", <<>>))
    ELSE IF generics.const_params > 0
    THEN Some(Error("const parameters not allowed in exported functions", <<>>))
    ELSE None

\* The for_each over the inputs: a wildcard gets a name made of its 0-based
\* index, an identifier pattern loses `mut`; receivers and other patterns stay.
NormalizeArg(n, arg) ==
    IF arg.kind = "Typed" /\ arg.pat = "Wild"
    THEN [arg EXCEPT !.pat = "Ident", !.mutability = FALSE,
                     !.name = <<"___unused_arg_", n>>]
    ELSE IF arg.kind = "Typed" /\ arg.pat = "Ident"
    THEN [arg EXCEPT !.mutability = FALSE]
    ELSE arg

NormalizeSig(sig) ==
    [sig EXCEPT !.inputs = [k \in 1..Len(sig.inputs) |-> NormalizeArg(k - 1, sig.inputs[k])],
                !.unsafety = FALSE]

\* One iteration of `for mut method in methods_to_export`, on the pair
\* (result.items, export.methods).
ValidateStep(method, acc) ==
    LET err == GenericsError(method.sig.generics) IN
    IF err # None
    THEN [acc EXCEPT !.result_items = Append(@, Verbatim(Unwrap(err), method.sig.ident))]
    ELSE [acc EXCEPT !.export_methods =
              Append(@, [method EXCEPT !.sig = NormalizeSig(method.sig)])]

----------------------------------------------------------------------------
(* derive_methods: the closure mapped over export.methods                  *)

CompileError(err, span) == [kind |-> "CompileError", err |-> err, span |-> span]

\* The registration statement: godot_wrap_method!(class, fn name(args) -> ret)
\* handed to builder.build_method(name_string, ..).with_rpc_mode(rpc).
Register(name, args, rpc) ==
    [kind |-> "Register", name |-> name, args |-> args, rpc |-> rpc]

\* WrapArgs with n <= arg_count - optional_args for the plain arguments.
WrapArgsOffByOne(inputs, optional_args) ==
    [k \in 1..Len(inputs) |->
        [arg |-> inputs[k], opt |-> ~((k - 1) <= Len(inputs) - optional_args)]]

\* arg n (0-based) of the wrapper: plain when n < arg_count - optional_args,
\* else prefixed with #[opt]
WrapArgs(inputs, optional_args) ==
    [k \in 1..Len(inputs) |->
        [arg |-> inputs[k], opt |-> ~((k - 1) < Len(inputs) - optional_args)]]

\* the arity floor of an exported method: self and owner
MinArgs == 2

\* TooFewArgs asking for self alone.
TooFewArgsSelfOnly(arg_count) == arg_count < MinArgs - 1

\* arg_count < 2
TooFewArgs(arg_count) == arg_count < MinArgs

DeriveMethod(method) ==
    LET arg_count == Len(method.sig.inputs) IN
    IF TooFewArgs(arg_count)
    THEN CompileError(Error("exported methods must take self and owner as arguments", <<>>),
                      method.sig.ident)
    ELSE IF method.args.optional_args # None
            /\ Unwrap(method.args.optional_args) > arg_count - MinArgs
    THEN CompileError(Error("there can be at most {} optional arguments, got {}",
                            <<arg_count - MinArgs, Unwrap(method.args.optional_args)>>),
                      method.sig.ident)
    ELSE Register(method.sig.ident,
                  WrapArgs(method.sig.inputs,
                           IF method.args.optional_args = None THEN 0
                           ELSE Unwrap(method.args.optional_args)),
                  method.args.rpc_mode)

\* DeriveStep putting the newest statement first.
DeriveStepPrepend(method, methods) == <<DeriveMethod(method)>> \o methods

\* DeriveStep giving up at the first compile error, as a collect into a Result
\* would.
DeriveStepAbort(method, methods) ==
    IF \E k \in 1..Len(methods) : methods[k].kind = "CompileError" THEN methods
    ELSE Append(methods, DeriveMethod(method))

\* .map(..).collect::<Vec<_>>(): every method yields one element
DeriveStep(method, methods) == Append(methods, DeriveMethod(method))

----------------------------------------------------------------------------
(* derive_methods as a function of the impl block                          *)

RECURSIVE ExposeAll(_, _)
ExposeAll(its, acc) ==
    IF its = <<>> THEN acc
    ELSE LET r == ExposeItem(Head(its)) IN
         ExposeAll(Tail(its),
            [result_items |-> acc.result_items \o r.items,
             methods_to_export |-> acc.methods_to_export \o r.exports])

RECURSIVE ValidateAll(_, _)
ValidateAll(methods, acc) ==
    IF methods = <<>> THEN acc
    ELSE ValidateAll(Tail(methods), ValidateStep(Head(methods), acc))

RECURSIVE DeriveAll(_, _)
DeriveAll(methods, acc) ==
    IF methods = <<>> THEN acc
    ELSE DeriveAll(Tail(methods), DeriveStep(Head(methods), acc))

\* The output for the block `its`: the items of the rewritten impl block and
\* the statements of fn register.
DeriveMethods(its) ==
    LET x == ExposeAll(its, [result_items |-> <<>>, methods_to_export |-> <<>>])
        y == ValidateAll(x.methods_to_export,
                         [result_items |-> x.result_items, export_methods |-> <<>>])
    IN  [impl_block |-> y.result_items,
         register   |-> DeriveAll(y.export_methods, <<>>)]

----------------------------------------------------------------------------
(* The impl blocks the pass is run on                                      *)

\* number of members of an impl block
MaxItems == 3
\* number of attributes of a method
MaxAttrs == 2
\* number of nested arguments in all the payloads of a method together
MaxNested == 2
\* number of parameters of a method
MaxParams == 4

Lit(kind, value) == [kind |-> kind, value |-> value]
Pair(key, lit) == [nv |-> TRUE, path |-> <<key>>, lit |-> lit]

\* The nested arguments of a payload: rpc with two known modes, with a mode
\* that is known but for its case, with a literal that is no string; a key that
\* is not rpc; an argument that is no name/value pair.
NestedArgs ==
    { Pair("rpc", Lit("Str", "remote")), Pair("rpc", Lit("Str", "master")),
      Pair("rpc", Lit("Str", "Master")), Pair("rpc", Lit("Int", "5")),
      Pair("bogus", Lit("Str", "x")),
      [nv |-> FALSE, path |-> <<>>, lit |-> Lit("Int", "1")] }

Attr(style, path, meta) == [style |-> style, path |-> path, meta |-> meta]
Empty == [kind |-> "Empty"]
List(nested) == [kind |-> "List", nested |-> nested]

BareExport == Attr("Outer", <<"export">>, Empty)               \* #[export]
ExportList(nested) == Attr("Outer", <<"gdnative", "export">>, List(nested)) \* #[gdnative::export(..)]
Inline == Attr("Outer", <<"inline">>, Empty)                   \* #[inline]
\* #[export = "x"]: one pair whose path is the path of the attribute
ExportNameValue ==
    Attr("Outer", <<"export">>,
         [kind |-> "NameValue", pair |-> [path |-> <<"export">>, lit |-> Lit("Str", "x")]])
ExportUnparsed == Attr("Outer", <<"export">>, [kind |-> "Err"])  \* parse_meta fails
InnerExport == Attr("Inner", <<"export">>, Empty)              \* #![export]

SeqsOfLen(S, n) == [1..n -> S]
SeqsUpTo(S, n) == UNION { SeqsOfLen(S, k) : k \in 0..n }

\* The attribute lists of at most k attributes with at most b nested arguments.
RECURSIVE AttrSeqs(_, _)
AttrSeqs(k, b) ==
    IF k = 0 THEN { <<>> }
    ELSE { <<>> }
         \cup { <<a>> \o r : a \in {BareExport, Inline}, r \in AttrSeqs(k - 1, b) }
         \cup UNION { { <<ExportList(n)>> \o r : r \in AttrSeqs(k - 1, b - Len(n)) }
                      : n \in SeqsUpTo(NestedArgs, b) }

Receiver == [kind |-> "Receiver", pat |-> "Self", mutability |-> FALSE,
             attrs |-> <<>>, name |-> <<"self">>]
Typed(pat, mutability, attrs, n) ==
    [kind |-> "Typed", pat |-> pat, mutability |-> mutability, attrs |-> attrs,
     name |-> IF pat = "Ident" THEN <<"arg", n>> ELSE <<"_">>]

NoGenerics == [type_params |-> 0, lifetimes |-> 0, const_params |-> 0]
GenericsChoices ==
    { NoGenerics, [NoGenerics EXCEPT !.type_params = 1],
      [NoGenerics EXCEPT !.lifetimes = 1], [NoGenerics EXCEPT !.const_params = 1],
      [type_params |-> 1, lifetimes |-> 1, const_params |-> 0] }

\* A method; its name is set from its place in the block (Named).
Method(attrs, inputs, generics, unsafety) ==
    [kind |-> "Method", attrs |-> attrs,
     sig |-> [ident |-> 0, inputs |-> inputs, generics |-> generics,
              unsafety |-> unsafety]]
OtherItem == [kind |-> "Other", ident |-> 0]

\* fn(&self, owner, arg2, ..) with the parameters of `opts` marked #[opt]
PlainInputs(opts) ==
    [k \in 1..Len(opts) |->
        IF k = 1 THEN [Receiver EXCEPT !.attrs = IF opts[k] THEN <<"opt">> ELSE <<>>]
        ELSE Typed("Ident", FALSE, IF opts[k] THEN <<"opt">> ELSE <<>>, k - 1)]

\* Methods with every directive of the bounds, on 1, 2 and 3 parameters.
DirectiveMethods ==
    { Method(a, PlainInputs(o), NoGenerics, FALSE) :
        a \in AttrSeqs(MaxAttrs, MaxNested),
        o \in { <<FALSE>>, <<FALSE, FALSE>>, <<FALSE, FALSE, TRUE>> } }

\* Methods with every marking of at most MaxParams parameters.
ParamMethods ==
    { Method(a, PlainInputs(o), g, FALSE) :
        a \in { <<>>, <<BareExport>>, <<ExportList(<<Pair("rpc", Lit("Str", "puppet"))>>)>> },
        o \in SeqsUpTo(BOOLEAN, MaxParams),
        g \in GenericsChoices }

\* The members the blocks of several members are made of.
Catalog ==
    { OtherItem,
      \* #[inline] unsafe fn(&self, mut a, #[opt] b): not exported
      Method(<<Inline>>,
             <<Receiver, Typed("Ident", TRUE, <<>>, 1), Typed("Ident", FALSE, <<"opt">>, 2)>>,
             NoGenerics, TRUE),
      \* #[export] unsafe fn(&self, owner, mut a, #[doc] #[opt] b)
      Method(<<BareExport>>,
             <<Receiver, Typed("Ident", FALSE, <<>>, 1), Typed("Ident", TRUE, <<>>, 2),
               Typed("Ident", FALSE, <<"doc", "opt">>, 3)>>,
             NoGenerics, TRUE),
      \* #[inline] #[export(rpc = "master")] #![export] fn(&self, _, (a, b))
      Method(<<Inline, ExportList(<<Pair("rpc", Lit("Str", "master"))>>), InnerExport>>,
             <<Receiver, Typed("Wild", FALSE, <<>>, 1), Typed("Tuple", FALSE, <<>>, 2)>>,
             NoGenerics, FALSE),
      \* #[export(rpc = "Master")] fn(&self, owner): directive error
      Method(<<ExportList(<<Pair("rpc", Lit("Str", "Master"))>>)>>,
             PlainInputs(<<FALSE, FALSE>>), NoGenerics, FALSE),
      \* #[export = "x"] #[export {..}] fn(&self, owner): directive shapes
      Method(<<ExportNameValue, ExportUnparsed>>,
             PlainInputs(<<FALSE, FALSE>>), NoGenerics, FALSE),
      \* #[export] fn(&self): arity floor
      Method(<<BareExport>>, PlainInputs(<<FALSE>>), NoGenerics, FALSE),
      \* #[export] fn<T>(&self, owner, a): generics
      Method(<<BareExport>>, PlainInputs(<<FALSE, FALSE, FALSE>>),
             [NoGenerics EXCEPT !.type_params = 1], FALSE),
      \* #[export] fn(&self, owner, #[opt] a, b): optional placement
      Method(<<BareExport>>, PlainInputs(<<FALSE, FALSE, TRUE, FALSE>>),
             NoGenerics, FALSE) }

\* The name of a member: its place in the block, so that names are unique.
Named(member, k) ==
    IF member.kind = "Method" THEN [member EXCEPT !.sig.ident = k]
    ELSE [member EXCEPT !.ident = k]

Blocks ==
    { <<m>> : m \in DirectiveMethods \cup ParamMethods }
    \cup SeqsUpTo(Catalog, MaxItems)

----------------------------------------------------------------------------
(* The pass as a state machine                                             *)

Init ==
    /\ items \in { [k \in 1..Len(b) |-> Named(b[k], k)] : b \in Blocks }
    /\ i = 1
    /\ result_items = <<>>         \* result.items.clear()
    /\ methods_to_export = <<>>
    /\ v = 1
    /\ export_methods = <<>>
    /\ e = 1
    /\ registered = <<>>
    /\ pc = "run"

\* for func in ast.items { .. result.items.extend(items) }
ExtractItem ==
    /\ pc = "run" /\ i <= Len(items)
    /\ LET r == ExposeItem(items[i]) IN
         /\ result_items' = result_items \o r.items
         /\ methods_to_export' = methods_to_export \o r.exports
    /\ i' = i + 1
    /\ UNCHANGED <<items, v, export_methods, e, registered, pc>>

\* for mut method in methods_to_export { .. }
ValidateMethod ==
    /\ pc = "run" /\ i > Len(items) /\ v <= Len(methods_to_export)
    /\ LET r == ValidateStep(methods_to_export[v],
                    [result_items |-> result_items, export_methods |-> export_methods])
       IN  /\ result_items' = r.result_items
           /\ export_methods' = r.export_methods
    /\ v' = v + 1
    /\ UNCHANGED <<items, i, methods_to_export, e, registered, pc>>

\* export.methods.into_iter().map(|ExportMethod { sig, args }| ..)
EmitMethod ==
    /\ pc = "run" /\ i > Len(items) /\ v > Len(methods_to_export)
    /\ e <= Len(export_methods)
    /\ registered' = DeriveStep(export_methods[e], registered)
    /\ e' = e + 1
    /\ UNCHANGED <<items, i, result_items, methods_to_export, v, export_methods, pc>>

\* quote!(#impl_block ... fn register(..) { #(#methods)* }): the output is
\* result_items (the impl block) and registered (the body of fn register).
Finish ==
    /\ pc = "run" /\ i > Len(items) /\ v > Len(methods_to_export)
    /\ e > Len(export_methods)
    /\ pc' = "done"
    /\ UNCHANGED <<items, i, result_items, methods_to_export, v, export_methods, e,
                   registered>>

Next == ExtractItem \/ ValidateMethod \/ EmitMethod \/ Finish

Spec == Init /\ [][Next]_vars
----------------------------------------------------------------------------
(* What the properties below speak of: the input block, the output         *)

Done == pc = "done"
Members == 1..Len(items)

Min(S) == CHOOSE x \in S : \A y \in S : x <= y
Max(S) == CHOOSE x \in S : \A y \in S : x >= y

\* An export marker: an outer attribute whose last path segment is export.
IsMarker(a) == a.style = "Outer" /\ a.path # <<>> /\ a.path[Len(a.path)] = "export"
MarkerIdx(m) == { k \in 1..Len(m.attrs) : IsMarker(m.attrs[k]) }
Exported(m) == m.kind = "Method" /\ MarkerIdx(m) # {}
ExportedIdx == { n \in Members : Exported(items[n]) }

Arity(m) == Len(m.sig.inputs)
HasOpt(arg) == \E j \in 1..Len(arg.attrs) : arg.attrs[j] = "opt"
OptMarked(m) == { k \in 1..Arity(m) : HasOpt(m.sig.inputs[k]) }
Generic(m) ==
    m.sig.generics.type_params + m.sig.generics.lifetimes
        + m.sig.generics.const_params > 0

\* The member an element of the output is about.
Owner(x) ==
    CASE x.kind \in {"Verbatim", "CompileError"} -> x.span
      [] x.kind = "Register" -> x.name
      [] x.kind = "Method" -> x.sig.ident
      [] OTHER -> x.ident
IsDiag(x) == x.kind \in {"Verbatim", "CompileError"}

\* The registration statements and the diagnostics of member n in the output.
Regs(n) == SelectSeq(registered, LAMBDA x : x.kind = "Register" /\ x.name = n)
Diags(n) == SelectSeq(result_items \o registered, LAMBDA x : IsDiag(x) /\ x.span = n)
CountDiag(n, msg) ==
    Len(SelectSeq(result_items,
                  LAMBDA x : x.kind = "Verbatim" /\ x.span = n /\ x.err.msg = msg))
\* The record the extractor made for exported method n.
RecordOf(n) == SelectSeq(methods_to_export, LAMBDA x : x.sig.ident = n)[1]
\* The members of the rewritten impl block, without the error markers.
ImplMembers == SelectSeq(result_items, LAMBDA x : x.kind # "Verbatim")

\* A method the shape checks let through: two parameters or more, no generics.
Accepted(m) == Exported(m) /\ Arity(m) >= 2 /\ ~Generic(m)

\* The name/value pairs of a marker's payload, and what they say.
PairsOf(a) ==
    IF a.meta.kind = "List" THEN SelectSeq(a.meta.nested, LAMBDA x : x.nv)
    ELSE IF a.meta.kind = "NameValue" THEN <<a.meta.pair>>
    ELSE <<>>
Key(p) == p.path[Len(p.path)]
IsRpc(p) == Key(p) = "rpc"
ModeOf ==
    [ s \in {"remote", "remote_sync", "master", "puppet", "disabled",
             "master_sync", "puppet_sync"} |->
        CASE s = "remote" -> "Remote"       [] s = "remote_sync" -> "RemoteSync"
          [] s = "master" -> "Master"       [] s = "puppet" -> "Puppet"
          [] s = "disabled" -> "Disabled"   [] s = "master_sync" -> "MasterSync"
          [] OTHER -> "PuppetSync" ]
RpcBadType(p) == IsRpc(p) /\ p.lit.kind # "Str"
RpcBadValue(p) == IsRpc(p) /\ p.lit.kind = "Str" /\ p.lit.value \notin DOMAIN ModeOf
RpcOk(p) == IsRpc(p) /\ p.lit.kind = "Str" /\ p.lit.value \in DOMAIN ModeOf
\* The place of the first rpc pair of a payload, 0 when it has none.
FirstRpc(P) ==
    IF \E j \in 1..Len(P) : IsRpc(P[j])
    THEN Min({ j \in 1..Len(P) : IsRpc(P[j]) })
    ELSE 0
\* Every (marker, place) of a name/value pair of method m.
PairPlaces(m) ==
    UNION { { <<k, j>> : j \in 1..Len(PairsOf(m.attrs[k])) } : k \in MarkerIdx(m) }
PairAt(m, x) == PairsOf(m.attrs[x[1]])[x[2]]

MsgType == "unexpected type for rpc value, expected Str"
MsgValue == "unexpected value for rpc"
MsgTwice == "rpc mode was set more than once"
MsgUnknown == "unknown option for export"
MsgSelfOwner == "self or owner cannot be optional"
MsgRequiredAfter == "cannot add required parameters after optional ones"
MsgAtMost == "there can be at most {} optional arguments, got {}"

----------------------------------------------------------------------------
\* C1: the registration statements of fn register name the accepted exported
\* methods of the block, each once, in the order of their declaration (names
\* are the places in the block), whatever stands between them.
C1_OrderPreserved ==
    Done =>
        LET r == SelectSeq(registered, LAMBDA x : x.kind = "Register") IN
        /\ \A a, b \in 1..Len(r) : a < b => r[a].name < r[b].name
        /\ { r[a].name : a \in 1..Len(r) } = { n \in Members : Accepted(items[n]) }

\* Two statements whose methods have a member in between that is a method
\* without marker, or a rejected exported method.
C1_Witness ==
    /\ Done
    /\ \E a, b \in Members : \E k \in Members :
          /\ a < k /\ k < b /\ Regs(a) # <<>> /\ Regs(b) # <<>>
          /\ items[k].kind = "Method" /\ Regs(k) = <<>>

----------------------------------------------------------------------------
\* An optional marker on self or owner, or a parameter without marker after one
\* with a marker.
BadPlacement(m) ==
    \/ \E k \in OptMarked(m) : k <= 2
    \/ \E j, k \in 1..Arity(m) : j < k /\ j \in OptMarked(m) /\ k \notin OptMarked(m)
PlacementDiags(n) == CountDiag(n, MsgSelfOwner) + CountDiag(n, MsgRequiredAfter)

----------------------------------------------------------------------------
\* The last k parameters, none of them self or owner, are the marked ones.
TrailingOpt(m, k) ==
    /\ Arity(m) >= 2 /\ k <= Arity(m) - 2
    /\ OptMarked(m) = (Arity(m) - k + 1)..Arity(m)

\* C3: an exported method whose last k parameters (k <= total - 2) are the
\* marked ones gets optional_args = Some(k), None when k = 0, and, unless it is
\* generic, one registration statement that passes every parameter and marks
\* optional the last k, which are the ones marked in the source.
C3_OptionalCountAndPartition ==
    Done =>
        \A n \in ExportedIdx : \A k \in 0..Arity(items[n]) :
            TrailingOpt(items[n], k) =>
                /\ RecordOf(n).args.optional_args = (IF k = 0 THEN None ELSE Some(k))
                /\ ~Generic(items[n]) =>
                      /\ Len(Regs(n)) = 1
                      /\ Len(Regs(n)[1].args) = Arity(items[n])
                      /\ \A j \in 1..Arity(items[n]) :
                            /\ Regs(n)[1].args[j].opt <=> j > Arity(items[n]) - k
                            /\ Regs(n)[1].args[j].opt <=> j \in OptMarked(items[n])

\* [self, owner, A, opt B] registered.
C3_Witness ==
    /\ Done
    /\ \E n \in ExportedIdx :
          /\ TrailingOpt(items[n], 1) /\ Arity(items[n]) = 4
          /\ Len(Regs(n)) = 1 /\ Regs(n)[1].args[4].opt /\ ~Regs(n)[1].args[3].opt

----------------------------------------------------------------------------
\* C4: an exported method with fewer than two parameters has no registration
\* statement and has a diagnostic, whatever its directive, generics and
\* optional markers.
C4_ArityFloor ==
    Done =>
        \A n \in ExportedIdx :
            Arity(items[n]) < 2 => Regs(n) = <<>> /\ Diags(n) # <<>>

\* A method of one parameter with a valid rpc payload, rejected for its arity.
C4_Witness ==
    /\ Done
    /\ \E n \in ExportedIdx :
          /\ Arity(items[n]) = 1
          /\ \E x \in PairPlaces(items[n]) : RpcOk(PairAt(items[n], x))
          /\ \E k \in 1..Len(registered) :
                registered[k].kind = "CompileError" /\ registered[k].span = n

----------------------------------------------------------------------------
\* C5 as stated, on the methods with one marker and on the pairs up to the first
\* valid rpc pair of its payload: when an rpc pair in error is followed by
\* another pair, every one of these pairs has been processed: each pair in
\* error has its diagnostic, and the valid rpc pair sets the mode.
C5_PerPairRecovery ==
    Done =>
        \A n \in ExportedIdx :
            Cardinality(MarkerIdx(items[n])) = 1 =>
                LET P == PairsOf(items[n].attrs[Min(MarkerIdx(items[n]))])
                    ok == { j \in 1..Len(P) : RpcOk(P[j]) }
                    pre == 1..(IF ok = {} THEN Len(P) ELSE Min(ok))
                IN  (\E j \in pre : IsRpc(P[j]) /\ ~RpcOk(P[j]) /\ j < Len(P)) =>
                        /\ RecordOf(n).args.rpc_mode =
                              (IF ok = {} THEN "Disabled" ELSE ModeOf[P[Min(ok)].lit.value])
                        /\ CountDiag(n, MsgType) = Cardinality({ j \in pre : RpcBadType(P[j]) })
                        /\ CountDiag(n, MsgValue) = Cardinality({ j \in pre : RpcBadValue(P[j]) })
                        /\ CountDiag(n, MsgUnknown) = Cardinality({ j \in pre : ~IsRpc(P[j]) })

----------------------------------------------------------------------------
\* C6 as stated, on the methods whose payloads hold at most one rpc pair, a
\* valid one: every pair with another key has one diagnostic naming the key (as
\* many diagnostics name a key as pairs have it), and an accepted method is
\* registered with the mode of the rpc pair, Disabled when there is none.
C6_UnknownKeyDiagnosed ==
    Done =>
        \A n \in ExportedIdx :
            LET m == items[n]
                rpcs == { x \in PairPlaces(m) : IsRpc(PairAt(m, x)) }
            IN  Cardinality(rpcs) <= 1 /\ (\A x \in rpcs : RpcOk(PairAt(m, x))) =>
                    /\ \A x \in PairPlaces(m) \ rpcs :
                          Len(SelectSeq(result_items,
                                LAMBDA d : /\ d.kind = "Verbatim" /\ d.span = n
                                           /\ d.err.msg = MsgUnknown
                                           /\ d.err.arg = <<Key(PairAt(m, x))>>))
                            = Cardinality({ y \in PairPlaces(m) :
                                              Key(PairAt(m, y)) = Key(PairAt(m, x)) })
                    /\ Accepted(m) =>
                          /\ Len(Regs(n)) = 1
                          /\ Regs(n)[1].rpc =
                                (IF rpcs = {} THEN "Disabled"
                                 ELSE ModeOf[PairAt(m, CHOOSE x \in rpcs : TRUE).lit.value])

----------------------------------------------------------------------------
\* The method with the payload of every marker after the first removed.
FirstMarkerOnly(m) ==
    [m EXCEPT !.attrs =
        [k \in 1..Len(m.attrs) |->
            IF k \in MarkerIdx(m) /\ k > Min(MarkerIdx(m))
            THEN [m.attrs[k] EXCEPT !.meta = Empty]
            ELSE m.attrs[k]]]
DirectiveMsgs ==
    { MsgType, MsgValue, MsgTwice, MsgUnknown, "parse_meta",
      "unexpected argument in list", "unexpected attribute argument",
      "the path should not be empty" }
DirectiveDiags(its) ==
    SelectSeq(its, LAMBDA x : x.kind = "Verbatim" /\ x.err.msg \in DirectiveMsgs)

\* C7 as stated: the ExportArgs and the directive diagnostics of a method are
\* those the method has with the payloads of its later markers removed.
C7_FirstMarkerWins ==
    Done =>
        \A n \in ExportedIdx :
            LET first == ExposeMethod(FirstMarkerOnly(items[n])) IN
            /\ RecordOf(n).args = first.exports[1].args
            /\ DirectiveDiags(SelectSeq(result_items, LAMBDA x : Owner(x) = n))
                  = DirectiveDiags(first.items)

\* The markers that set the mode: those whose first rpc pair is valid.
Setters(m) ==
    { k \in MarkerIdx(m) :
        LET P == PairsOf(m.attrs[k]) IN FirstRpc(P) # 0 /\ RpcOk(P[FirstRpc(P)]) }

\* C7 as amended: the payload of every marker is parsed, in the order of the
\* markers and up to its first rpc pair: rpc_mode is the mode of the last
\* marker that sets one (Disabled when none does), every marker setting one
\* after another did adds "rpc mode was set more than once", and the
\* diagnostics of the pairs in error are those of all the markers.
C7_EveryMarkerParsed ==
    Done =>
        \A n \in ExportedIdx :
            LET m == items[n]
                first(k) == PairsOf(m.attrs[k])[FirstRpc(PairsOf(m.attrs[k]))]
                read == { x \in PairPlaces(m) :
                            FirstRpc(PairsOf(m.attrs[x[1]])) = 0
                            \/ x[2] <= FirstRpc(PairsOf(m.attrs[x[1]])) }
            IN  /\ RecordOf(n).args.rpc_mode =
                      (IF Setters(m) = {} THEN "Disabled"
                       ELSE ModeOf[first(Max(Setters(m))).lit.value])
                /\ CountDiag(n, MsgTwice) =
                      (IF Setters(m) = {} THEN 0 ELSE Cardinality(Setters(m)) - 1)
                /\ CountDiag(n, MsgType) = Cardinality({ x \in read : RpcBadType(PairAt(m, x)) })
                /\ CountDiag(n, MsgValue) = Cardinality({ x \in read : RpcBadValue(PairAt(m, x)) })
                /\ CountDiag(n, MsgUnknown) = Cardinality({ x \in read : ~IsRpc(PairAt(m, x)) })

\* Two markers with different valid modes: registered with the second one's.
C7_Witness ==
    /\ Done
    /\ \E n \in ExportedIdx :
          /\ Cardinality(Setters(items[n])) = 2
          /\ Len(Regs(n)) = 1
          /\ LET a == items[n].attrs[Min(Setters(items[n]))]
                 b == items[n].attrs[Max(Setters(items[n]))]
             IN  /\ PairsOf(a)[1].lit.value # PairsOf(b)[1].lit.value
                 /\ Regs(n)[1].rpc = ModeOf[PairsOf(b)[1].lit.value]
          /\ CountDiag(n, MsgTwice) = 1

----------------------------------------------------------------------------
\* The well-formed members an offending one is replaced by.
WellFormed ==
    { Method(<<BareExport>>, PlainInputs(<<FALSE, FALSE>>), NoGenerics, FALSE),
      Method(<<>>, PlainInputs(<<FALSE, FALSE>>), NoGenerics, FALSE) }
Offending(n) == Diags(n) # <<>>
Without(n, seq) == SelectSeq(seq, LAMBDA x : Owner(x) # n)

\* C8: the pass ends with every member rewritten, and with an offending member
\* replaced by a well-formed one the output is the same for all the others:
\* the same statements of fn register and the same items of the impl block, in
\* the same order.
C8_ErrorIsolation ==
    Done =>
        /\ Len(ImplMembers) = Len(items)
        /\ \A n \in Members : \A w \in WellFormed :
              Offending(n) =>
                  LET out == DeriveMethods([items EXCEPT ![n] = Named(w, n)]) IN
                  /\ Without(n, registered) = Without(n, out.register)
                  /\ Without(n, result_items) = Without(n, out.impl_block)

\* An offending method declared before a registered one.
C8_Witness ==
    /\ Done
    /\ \E n, k \in Members :
          /\ n < k /\ Offending(n) /\ Regs(n) = <<>> /\ Len(Regs(k)) = 1
          /\ \E j \in 1..Len(registered) :
                registered[j].kind = "CompileError" /\ registered[j].span = n

----------------------------------------------------------------------------
Stripped(m) ==
    /\ \A k \in 1..Len(m.attrs) : ~IsMarker(m.attrs[k])
    /\ OptMarked(m) = {}
\* The member as the impl block keeps it: without the markers when exported.
Rewritten(m) ==
    IF Exported(m)
    THEN [m EXCEPT
            !.attrs = SelectSeq(m.attrs, LAMBDA a : ~IsMarker(a)),
            !.sig.inputs = [k \in 1..Arity(m) |->
                [m.sig.inputs[k] EXCEPT !.attrs = SelectSeq(@, LAMBDA a : a # "opt")]]]
    ELSE m

\* C9 as stated: the impl block holds the members in their order; an exported
\* method has lost its markers, its optional markers, its unsafety and the mut
\* of its parameters; the other members are unchanged.
C9_StrippedAndNormalized ==
    Done =>
        /\ Len(ImplMembers) = Len(items)
        /\ \A n \in Members :
              IF Exported(items[n])
              THEN /\ ImplMembers[n].kind = "Method" /\ ImplMembers[n].sig.ident = n
                   /\ Stripped(ImplMembers[n])
                   /\ ~ImplMembers[n].sig.unsafety
                   /\ \A k \in 1..Arity(ImplMembers[n]) :
                         ~ImplMembers[n].sig.inputs[k].mutability
              ELSE ImplMembers[n] = items[n]

\* C9 as amended: the impl block holds the members in their order; an exported
\* method has lost its markers and its optional markers and nothing else
\* (unsafety and mut stay; they are dropped from the registered signature
\* alone); the other members are unchanged.
C9_MarkersStripped ==
    Done =>
        /\ Len(ImplMembers) = Len(items)
        /\ \A n \in Members :
              /\ ImplMembers[n] = Rewritten(items[n])
              /\ Exported(items[n]) => Stripped(ImplMembers[n])

\* An unsafe exported method with a mut and an optional parameter beside an
\* exported method whose directive is in error.
C9_Witness ==
    /\ Done
    /\ \E n, k \in ExportedIdx :
          /\ items[n].sig.unsafety /\ OptMarked(items[n]) # {}
          /\ \E j \in 1..Arity(items[n]) : items[n].sig.inputs[j].mutability
          /\ ImplMembers[n].sig.unsafety
          /\ DirectiveDiags(SelectSeq(result_items, LAMBDA x : Owner(x) = k)) # <<>>

----------------------------------------------------------------------------
\* C10: every record the extractor makes has optional_args None or Some(n) with
\* 1 <= n <= parameters - 2, and fn register holds no "there can be at most"
\* diagnostic.
C10_OptionalCountBound ==
    /\ \A k \in 1..Len(methods_to_export) :
          LET r == methods_to_export[k] IN
          r.args.optional_args # None =>
              /\ 1 <= Unwrap(r.args.optional_args)
              /\ Unwrap(r.args.optional_args) <= Len(r.sig.inputs) - 2
    /\ \A k \in 1..Len(export_methods) :
          LET r == export_methods[k] IN
          r.args.optional_args # None =>
              /\ 1 <= Unwrap(r.args.optional_args)
              /\ Unwrap(r.args.optional_args) <= Len(r.sig.inputs) - 2
    /\ \A k \in 1..Len(registered) :
          registered[k].kind = "CompileError" => registered[k].err.msg # MsgAtMost

\* A method whose parameters after owner are all optional, registered with
\* the largest count its arity allows.
C10_Witness ==
    /\ Done
    /\ \E n \in ExportedIdx :
          /\ Arity(items[n]) >= 3 /\ OptMarked(items[n]) = 3..Arity(items[n])
          /\ Len(Regs(n)) = 1
          /\ RecordOf(n).args.optional_args = Some(Arity(items[n]) - 2)
====
